---- MODULE Spec2Model ----
(***************************************************************************)
(* LP-Simulator: the collection of simulated positions (App.tsx), the      *)
(* position card with its text inputs and derived figures                  *)
(* (SimulationCard), and the price oracle (geminiService).                 *)
(*                                                                         *)
(* Numbers.  A JavaScript number is modelled as an exact rational <<n, d>> *)
(* in lowest terms with d > 0, extended with the three non-finite values   *)
(* NaN = <<0, 0>>, Infinity = <<1, 0>> and -Infinity = <<-1, 0>>.          *)
(* Arithmetic is exact: the rounding of IEEE-754 doubles is not modelled,  *)
(* so "equal" below means equal as real numbers.  `undefined` is the empty *)
(* tuple.                                                                  *)
(*                                                                         *)
(* Text.  The text of a numeric input is a sequence of one-character       *)
(* strings; parseFloat, Number.prototype.toString and toFixed are          *)
(* computed digit by digit.  Free text (protocol, token names, dates) is   *)
(* an opaque string.                                                       *)
(***************************************************************************)
EXTENDS Integers, Sequences, FiniteSets, TLC

(***************************************************************************)
(* Numbers                                                                 *)
(***************************************************************************)
Abs(x) ==
    IF x < 0 THEN -x ELSE x

Sign(x) ==
    IF x < 0 THEN -1 ELSE IF x > 0 THEN 1 ELSE 0

RECURSIVE GCD(_, _)
GCD(a, b) ==
    IF b = 0 THEN a ELSE GCD(b, a % b)

\* n/d in lowest terms; a zero denominator gives NaN, Infinity or -Infinity.
Rat(n, d) ==
    IF d = 0 THEN <<Sign(n), 0>>
    ELSE LET g == GCD(Abs(n), Abs(d))
         IN  <<(Sign(d) * Sign(n) * Abs(n)) \div g, Abs(d) \div g>>

Num(n) ==
    <<n, 1>>

NaN ==
    <<0, 0>>

Infinity ==
    <<1, 0>>

Undefined ==
    <<>>

Zero ==
    <<0, 1>>

One ==
    <<1, 1>>

IsNumber(x) ==
    Len(x) = 2

IsNaN(x) ==
    x = NaN

IsFinite(x) ==
    IsNumber(x) /\ x[2] # 0

Neg(a) ==
    <<-a[1], a[2]>>

Add(a, b) ==
    IF a[2] = 0 \/ b[2] = 0
    THEN IF IsNaN(a) \/ IsNaN(b) THEN NaN
         ELSE IF a[2] = 0 /\ b[2] = 0
              THEN (IF a[1] = b[1] THEN a ELSE NaN)
              ELSE (IF a[2] = 0 THEN a ELSE b)
    ELSE LET g == GCD(a[2], b[2])
         IN  Rat(a[1] * (b[2] \div g) + b[1] * (a[2] \div g), (a[2] \div g) * b[2])

Sub(a, b) ==
    Add(a, Neg(b))

Mul(a, b) ==
    IF a[2] = 0 \/ b[2] = 0
    THEN <<Sign(a[1]) * Sign(b[1]), 0>>
    ELSE LET g1 == GCD(Abs(a[1]), b[2])
             g2 == GCD(Abs(b[1]), a[2])
         IN  Rat((a[1] \div (IF g1 = 0 THEN 1 ELSE g1)) * (b[1] \div (IF g2 = 0 THEN 1 ELSE g2)),
                 (a[2] \div (IF g2 = 0 THEN 1 ELSE g2)) * (b[2] \div (IF g1 = 0 THEN 1 ELSE g1)))

\* JavaScript division never throws: x/0 is NaN or an infinity.
Div(a, b) ==
    IF IsNaN(a) \/ IsNaN(b) THEN NaN
    ELSE IF a[2] = 0 /\ b[2] = 0 THEN NaN
    ELSE IF a[2] = 0 THEN <<a[1] * (IF b[1] < 0 THEN -1 ELSE 1), 0>>
    ELSE IF b[2] = 0 THEN Zero
    ELSE Mul(a, Rat(b[2], b[1]))

\* Comparisons with NaN are false.
Lt(a, b) ==
    IF IsNaN(a) \/ IsNaN(b) THEN FALSE
    ELSE IF a[2] = 0 /\ b[2] = 0 THEN a[1] < b[1]
    ELSE IF a[2] = 0 THEN a[1] < 0
    ELSE IF b[2] = 0 THEN b[1] > 0
    ELSE a[1] * b[2] < b[1] * a[2]

Gt(a, b) ==
    Lt(b, a)

Le(a, b) ==
    IF IsNaN(a) \/ IsNaN(b) THEN FALSE ELSE ~Lt(b, a)

Ge(a, b) ==
    Le(b, a)

\* a !== b on numbers (NaN differs from itself).
StrictNe(a, b) ==
    IsNaN(a) \/ IsNaN(b) \/ a # b

\* Truthiness of an optional number: undefined, 0 and NaN are falsy.
Truthy(x) ==
    IsNumber(x) /\ x # Zero /\ ~IsNaN(x)

\* x ?? dflt
Coalesce(x, dflt) ==
    IF x = Undefined THEN dflt ELSE x

\* Math.floor of a finite number, as an integer.
Floor(a) ==
    a[1] \div a[2]

IsInteger(a) ==
    IsFinite(a) /\ a[2] = 1

(***************************************************************************)
(* Text of numeric inputs                                                  *)
(***************************************************************************)
DigitChars ==
    <<"0", "1", "2", "3", "4", "5", "6", "7", "8", "9">>

IsDigit(c) ==
    \E i \in 1..10 : DigitChars[i] = c

DigitVal(c) ==
    (CHOOSE i \in 1..10 : DigitChars[i] = c) - 1

RECURSIVE Pow10(_)
Pow10(k) ==
    IF k = 0 THEN 1 ELSE 10 * Pow10(k - 1)

RECURSIVE NatToText(_)
NatToText(n) ==
    IF n < 10 THEN <<DigitChars[n + 1]>>
    ELSE Append(NatToText(n \div 10), DigitChars[(n % 10) + 1])

\* The digits of n, left-padded with zeros to at least k characters.
RECURSIVE PadNat(_, _)
PadNat(n, k) ==
    IF k <= 1 THEN NatToText(n)
    ELSE IF n < Pow10(k - 1) THEN <<"0">> \o PadNat(n, k - 1)
    ELSE NatToText(n)

\* Fractional digits Number.prototype.toString prints for a value that has no
\* finite decimal expansion (a double prints 16 or 17 significant digits).
ToStringDigits ==
    4

\* The decimal digits of r/d (0 <= r < d), at most k of them, without
\* trailing zeros.
RECURSIVE FracDigits(_, _, _)
FracDigits(r, d, k) ==
    IF r = 0 \/ k = 0 THEN <<>>
    ELSE <<DigitChars[((r * 10) \div d) + 1]>> \o FracDigits((r * 10) % d, d, k - 1)

TextNaN ==
    <<"N", "a", "N">>

TextInfinity ==
    <<"I", "n", "f", "i", "n", "i", "t", "y">>

\* Number.prototype.toString (radix 10, no exponent form: magnitudes stay
\* between 1e-6 and 1e21).
toString(a) ==
    IF IsNaN(a) THEN TextNaN
    ELSE IF a[2] = 0 THEN (IF a[1] < 0 THEN <<"-">> ELSE <<>>) \o TextInfinity
    ELSE LET m    == Abs(a[1])
             frac == FracDigits(m % a[2], a[2], ToStringDigits)
         IN  (IF a[1] < 0 THEN <<"-">> ELSE <<>>)
             \o NatToText(m \div a[2])
             \o (IF frac = <<>> THEN <<>> ELSE <<".">> \o frac)

\* <<floor(acc + r * 10^k / d), the remainder>>, one digit at a time.
RECURSIVE LongDiv(_, _, _, _)
LongDiv(acc, r, d, k) ==
    IF k = 0 THEN <<acc, r>>
    ELSE LongDiv(10 * acc + ((r * 10) \div d), (r * 10) % d, d, k - 1)

\* Number.prototype.toFixed(k): rounds half away from zero and always prints
\* k fractional digits.
toFixed(a, k) ==
    IF IsNaN(a) THEN TextNaN
    ELSE IF a[2] = 0 THEN (IF a[1] < 0 THEN <<"-">> ELSE <<>>) \o TextInfinity
    ELSE LET m      == Abs(a[1])
             ld     == LongDiv(m \div a[2], m % a[2], a[2], k)
             scaled == IF 2 * ld[2] >= a[2] THEN ld[1] + 1 ELSE ld[1]
         IN  (IF a[1] < 0 THEN <<"-">> ELSE <<>>)
             \o NatToText(scaled \div Pow10(k))
             \o (IF k = 0 THEN <<>> ELSE <<".">> \o PadNat(scaled % Pow10(k), k))

\* First position at or after i that holds no digit.
RECURSIVE DigitsEnd(_, _)
DigitsEnd(t, i) ==
    IF i <= Len(t) /\ IsDigit(t[i]) THEN DigitsEnd(t, i + 1) ELSE i

\* The number written by the digits t[i..j-1].
RECURSIVE DigitsToNat(_, _, _)
DigitsToNat(t, i, j) ==
    IF j <= i THEN 0 ELSE 10 * DigitsToNat(t, i, j - 1) + DigitVal(t[j - 1])

RECURSIVE SkipSpaces(_, _)
SkipSpaces(t, i) ==
    IF i <= Len(t) /\ t[i] = " " THEN SkipSpaces(t, i + 1) ELSE i

\* parseFloat: the longest prefix [spaces][sign]digits[.digits] (or .digits);
\* NaN when there is none.  Exponents and "Infinity" are not among the texts
\* the model feeds it.
parseFloat(t) ==
    LET b       == SkipSpaces(t, 1)
        signed  == b <= Len(t) /\ t[b] \in {"-", "+"}
        s       == IF signed THEN b + 1 ELSE b
        ie      == DigitsEnd(t, s)
        hasDot  == ie <= Len(t) /\ t[ie] = "."
        fe      == IF hasDot THEN DigitsEnd(t, ie + 1) ELSE ie
        nInt    == ie - s
        nFrac   == IF hasDot THEN fe - (ie + 1) ELSE 0
        mag     == Rat(DigitsToNat(t, s, ie) * Pow10(nFrac)
                         + (IF hasDot THEN DigitsToNat(t, ie + 1, fe) ELSE 0),
                       Pow10(nFrac))
    IN  IF nInt = 0 /\ nFrac = 0 THEN NaN
        ELSE IF signed /\ t[b] = "-" THEN Neg(mag) ELSE mag

(***************************************************************************)
(* Math.sqrt                                                               *)
(***************************************************************************)
\* Largest r in lo..hi with r * r <= n.
RECURSIVE ISqrtIn(_, _, _)
ISqrtIn(n, lo, hi) ==
    IF lo >= hi THEN lo
    ELSE LET mid == (lo + hi + 1) \div 2
         IN  IF mid * mid <= n THEN ISqrtIn(n, mid, hi) ELSE ISqrtIn(n, lo, mid - 1)

ISqrt(n) ==
    ISqrtIn(n, 0, IF n < 46340 THEN n ELSE 46340)

\* Resolution of a square root that is not rational.
SqrtScale ==
    100

\* Math.sqrt: NaN below zero, exact on squares of rationals, rounded down to
\* 1/SqrtScale elsewhere.
Sqrt(a) ==
    IF IsNaN(a) \/ Lt(a, Zero) THEN NaN
    ELSE IF a[2] = 0 THEN a
    ELSE LET rn == ISqrt(a[1])
             rd == ISqrt(a[2])
         IN  IF rn * rn = a[1] /\ rd * rd = a[2] THEN Rat(rn, rd)
             ELSE Rat(ISqrt((a[1] * SqrtScale * SqrtScale) \div a[2]), SqrtScale)

(***************************************************************************)
(* The position card's derived figures (SimulationCard)                    *)
(***************************************************************************)
\* Mutant of PriceRatio: the quotient without its guard.
PriceRatioUnguarded(priceA, priceB) ==
    Div(priceA, priceB)

\* initialPriceB > 0 ? initialPriceA / initialPriceB : 0, likewise for latest.
PriceRatio(priceA, priceB) ==
    IF Gt(priceB, Zero) THEN Div(priceA, priceB) ELSE Zero

\* Mutant of ImpermanentLossFactor: the factor 2 is forgotten.
ImpermanentLossFactorHalved(k) ==
    Sub(Div(Sqrt(k), Add(One, k)), One)

\* Mutant of ImpermanentLossFactor: the square root is forgotten.
ImpermanentLossFactorWithoutRoot(k) ==
    Sub(Div(Mul(Num(2), k), Add(One, k)), One)

\* (2 * Math.sqrt(k)) / (1 + k) - 1
ImpermanentLossFactor(k) ==
    Sub(Div(Mul(Num(2), Sqrt(k)), Add(One, k)), One)

\* Mutant of ShortPnl: the P&L of a long position.
ShortPnlOfLong(sim, priceA, priceB) ==
    IF sim.shortToken = "A"
    THEN (IF Gt(sim.initialPriceA, Zero)
          THEN Mul(sim.shortAmount, Sub(Div(priceA, sim.initialPriceA), One))
          ELSE Zero)
    ELSE (IF Gt(sim.initialPriceB, Zero)
          THEN Mul(sim.shortAmount, Sub(Div(priceB, sim.initialPriceB), One))
          ELSE Zero)

\* The short leg's P&L at prices (priceA, priceB).
ShortPnl(sim, priceA, priceB) ==
    IF sim.shortToken = "A"
    THEN (IF Gt(sim.initialPriceA, Zero)
          THEN Mul(sim.shortAmount, Sub(One, Div(priceA, sim.initialPriceA)))
          ELSE Zero)
    ELSE (IF Gt(sim.initialPriceB, Zero)
          THEN Mul(sim.shortAmount, Sub(One, Div(priceB, sim.initialPriceB)))
          ELSE Zero)

\* -1 * shortAmount * (fundingRate / 100) * days
FundingPnl(sim, days) ==
    Mul(Mul(Mul(Num(-1), sim.shortAmount), Div(sim.fundingRate, Num(100))), days)

\* Mutant of HedgePnl: the test of isHedgeEnabled is forgotten.
HedgePnlAlways(sim, priceA, priceB, days) ==
    [shortPnl |-> ShortPnl(sim, priceA, priceB), fundingPnl |-> FundingPnl(sim, days)]

\* The hedge's two terms over `days` days at prices (priceA, priceB): both 0
\* unless isHedgeEnabled.
HedgePnl(sim, priceA, priceB, days) ==
    IF sim.isHedgeEnabled
    THEN [shortPnl |-> ShortPnl(sim, priceA, priceB), fundingPnl |-> FundingPnl(sim, days)]
    ELSE [shortPnl |-> Zero, fundingPnl |-> Zero]

\* Mutant of EarnedFees: the fees of one day more.
EarnedFeesOfNextDay(initialInvestment, apr, days) ==
    Mul(Mul(initialInvestment, Div(apr, Num(100))), Div(Add(days, One), Num(365)))

\* initialInvestment * (apr / 100) * (days / 365)
EarnedFees(initialInvestment, apr, days) ==
    Mul(Mul(initialInvestment, Div(apr, Num(100))), Div(days, Num(365)))

\* Mutant of IsInRange: the bounds themselves are out of range.
IsInRangeStrict(latestPriceRatio, lowerPriceBound, upperPriceBound) ==
    Gt(latestPriceRatio, lowerPriceBound) /\ Lt(latestPriceRatio, upperPriceBound)

\* latestPriceRatio >= lowerPriceBound && latestPriceRatio <= upperPriceBound
IsInRange(latestPriceRatio, lowerPriceBound, upperPriceBound) ==
    Ge(latestPriceRatio, lowerPriceBound) /\ Le(latestPriceRatio, upperPriceBound)

\* Mutant of LossApplies: the test of the range is forgotten.
LossAppliesIgnoringRange(initialPriceRatio, latestPriceRatio, lowerPriceBound, upperPriceBound) ==
    Gt(initialPriceRatio, Zero) /\ Gt(latestPriceRatio, Zero)

\* Mutant of LossApplies: no loss once the ratio has left the range.
LossAppliesInRangeOnly(initialPriceRatio, latestPriceRatio, lowerPriceBound, upperPriceBound) ==
    /\ Gt(initialPriceRatio, Zero)
    /\ Gt(latestPriceRatio, Zero)
    /\ Gt(upperPriceBound, lowerPriceBound)
    /\ Ge(latestPriceRatio, lowerPriceBound)
    /\ Le(latestPriceRatio, upperPriceBound)

\* The condition under which calculations applies the impermanent-loss factor.
LossApplies(initialPriceRatio, latestPriceRatio, lowerPriceBound, upperPriceBound) ==
    /\ Gt(initialPriceRatio, Zero)
    /\ Gt(latestPriceRatio, Zero)
    /\ Gt(upperPriceBound, lowerPriceBound)

\* The valuation snapshot.  Lines 373-392 of the source compute
\* effectiveLpValue, which nothing reads; the snapshot does not depend on it.
calculations(sim) ==
    LET initialAmountA     == Coalesce(sim.amountA, Zero)
        initialAmountB     == Coalesce(sim.amountB, Zero)
        initialInvestment  == Add(Mul(initialAmountA, sim.initialPriceA),
                                  Mul(initialAmountB, sim.initialPriceB))
        holdValue          == Add(Mul(initialAmountA, sim.latestPriceA),
                                  Mul(initialAmountB, sim.latestPriceB))
        latestPriceRatio   == PriceRatio(sim.latestPriceA, sim.latestPriceB)
        initialPriceRatio  == PriceRatio(sim.initialPriceA, sim.initialPriceB)
        isInRange          == IsInRange(latestPriceRatio, sim.lowerPriceBound,
                                        sim.upperPriceBound)
        finalLpValue       ==
            IF LossApplies(initialPriceRatio, latestPriceRatio,
                           sim.lowerPriceBound, sim.upperPriceBound)
            THEN Mul(holdValue,
                     Add(One, ImpermanentLossFactor(Div(latestPriceRatio, initialPriceRatio))))
            ELSE holdValue
        impermanentLoss    == Sub(finalLpValue, holdValue)
        impermanentLossPct == IF Gt(holdValue, Zero)
                              THEN Mul(Div(impermanentLoss, holdValue), Num(100))
                              ELSE Zero
        earnedFees         == EarnedFees(initialInvestment, sim.apr, sim.duration)
        lpNetReturn        == Sub(Add(finalLpValue, earnedFees), initialInvestment)
        lpNetReturnPct     == IF Gt(initialInvestment, Zero)
                              THEN Mul(Div(lpNetReturn, initialInvestment), Num(100))
                              ELSE Zero
        hedge              == HedgePnl(sim, sim.latestPriceA, sim.latestPriceB,
                                       sim.duration)
        shortPnl           == hedge.shortPnl
        fundingPnl         == hedge.fundingPnl
        totalNetReturn     == Add(Add(lpNetReturn, shortPnl), fundingPnl)
        totalNetReturnPct  == IF Gt(initialInvestment, Zero)
                              THEN Mul(Div(totalNetReturn, initialInvestment), Num(100))
                              ELSE Zero
        finalTotalValue    == Add(initialInvestment, totalNetReturn)
    IN  [initialInvestment  |-> initialInvestment,
         earnedFees         |-> earnedFees,
         impermanentLoss    |-> impermanentLoss,
         impermanentLossPct |-> impermanentLossPct,
         holdValue          |-> holdValue,
         finalLpValue       |-> finalLpValue,
         lpNetReturn        |-> lpNetReturn,
         lpNetReturnPct     |-> lpNetReturnPct,
         shortPnl           |-> shortPnl,
         fundingPnl         |-> fundingPnl,
         totalNetReturn     |-> totalNetReturn,
         totalNetReturnPct  |-> totalNetReturnPct,
         finalTotalValue    |-> finalTotalValue,
         isInRange          |-> isInRange,
         priceRange         |-> [min       |-> sim.lowerPriceBound,
                                 max       |-> sim.upperPriceBound,
                                 current   |-> latestPriceRatio,
                                 isInRange |-> isInRange]]

\* Mutant of ChartIsEmpty: the test of duration is forgotten.
ChartIsEmptyIgnoringDuration(sim) ==
    ~Truthy(sim.amountA) \/ ~Truthy(sim.amountB)

\* Mutant of ChartIsEmpty: duration < 0 in place of duration <= 0.
ChartIsEmptyStrict(sim) ==
    Lt(sim.duration, Zero) \/ ~Truthy(sim.amountA) \/ ~Truthy(sim.amountB)

\* chartData's early return: duration <= 0 || !amountA || !amountB
ChartIsEmpty(sim) ==
    Le(sim.duration, Zero) \/ ~Truthy(sim.amountA) \/ ~Truthy(sim.amountB)

\* Mutant of ChartLoopCond: day < duration.
ChartLoopCondStrict(d, duration) ==
    Lt(d, duration)

\* The loop condition day <= duration.
ChartLoopCond(d, duration) ==
    Le(d, duration)

\* day++
ChartNextDay(d) ==
    Add(d, One)

\* The body of chartData's loop: the point pushed for `d`.
ChartPoint(sim, d) ==
    LET initialInvestment == Add(Mul(sim.amountA, sim.initialPriceA),
                                 Mul(sim.amountB, sim.initialPriceB))
        progress          == IF Gt(sim.duration, Zero) THEN Div(d, sim.duration) ELSE One
        currentPriceA     == Add(sim.initialPriceA,
                                 Mul(Sub(sim.latestPriceA, sim.initialPriceA), progress))
        currentPriceB     == IF Gt(sim.initialPriceB, Zero)
                             THEN Add(sim.initialPriceB,
                                      Mul(Sub(sim.latestPriceB, sim.initialPriceB), progress))
                             ELSE One
        holdValue         == Add(Mul(sim.amountA, currentPriceA),
                                 Mul(sim.amountB, currentPriceB))
        earnedFees        == EarnedFees(initialInvestment, sim.apr, d)
        initialPriceRatio == PriceRatio(sim.initialPriceA, sim.initialPriceB)
        currentPriceRatio == PriceRatio(currentPriceA, currentPriceB)
        priceRatioChange  == Div(currentPriceRatio, initialPriceRatio)
        lpValue           ==
            IF Gt(initialPriceRatio, Zero) /\ Gt(currentPriceRatio, Zero)
               /\ Gt(priceRatioChange, Zero)
            THEN Mul(holdValue, Add(One, ImpermanentLossFactor(priceRatioChange)))
            ELSE holdValue
        hedge             == HedgePnl(sim, currentPriceA, currentPriceB, d)
        shortPnl          == hedge.shortPnl
        fundingPnl        == hedge.fundingPnl
    IN  [day        |-> d,
         totalValue |-> Add(Add(Add(lpValue, earnedFees), shortPnl), fundingPnl),
         holdValue  |-> holdValue,
         earnedFees |-> earnedFees]

(***************************************************************************)
(* The collection of positions (App)                                       *)
(***************************************************************************)
\* The record addSimulation builds; `id` is Date.now().toString().
NewSimulation(id) ==
    LET initialInvestment == Num(1000)
        initialPriceA     == Num(3000)
        initialPriceB     == Num(1)
    IN  [id              |-> id,
         protocol        |-> "Uniswap V3",
         tokenA          |-> "ETH",
         tokenB          |-> "USDC",
         amountA         |-> Div(Div(initialInvestment, Num(2)), initialPriceA),
         amountB         |-> Div(Div(initialInvestment, Num(2)), initialPriceB),
         apr             |-> Num(25),
         duration        |-> Num(30),
         lowerPriceBound |-> Num(2400),
         upperPriceBound |-> Num(3600),
         startDate       |-> "today",
         initialPriceA   |-> initialPriceA,
         initialPriceB   |-> initialPriceB,
         latestPriceA    |-> Num(3000),
         latestPriceB    |-> Num(1),
         tradeVolume     |-> Num(1000000),
         volumeFee       |-> Rat(3, 10),
         isHedgeEnabled  |-> FALSE,
         shortAmount     |-> Div(initialInvestment, Num(2)),
         fundingRate     |-> Rat(1, 100),
         shortToken      |-> "A"]

\* { ...sim, ...updatedSim }
Merge(sim, updatedSim) ==
    [f \in DOMAIN sim \cup DOMAIN updatedSim |->
        IF f \in DOMAIN updatedSim THEN updatedSim[f] ELSE sim[f]]

\* Mutant of updateSimulation: the id is not compared.
updateSimulationOfAll(prev, id, updatedSim) ==
    [j \in DOMAIN prev |-> Merge(prev[j], updatedSim)]

\* prev.map(sim => sim.id === id ? { ...sim, ...updatedSim } : sim)
updateSimulation(prev, id, updatedSim) ==
    [j \in DOMAIN prev |->
        IF prev[j].id = id THEN Merge(prev[j], updatedSim) ELSE prev[j]]

\* The indices j.. of `seq` whose element has another id than `id`, in order.
RECURSIVE KeptIndices(_, _, _)
KeptIndices(seq, id, j) ==
    IF j > Len(seq) THEN <<>>
    ELSE (IF seq[j].id # id THEN <<j>> ELSE <<>>) \o KeptIndices(seq, id, j + 1)

\* prev.filter(sim => sim.id !== id)
FilterOutId(prev, id) ==
    LET keep == KeptIndices(prev, id, 1)
    IN  [k \in 1..Len(keep) |-> prev[keep[k]]]

\* window.localStorage.removeItem(`lp-sim-values-${id}`)
RemoveItem(store, id) ==
    [k \in DOMAIN store \ {id} |-> store[k]]

(***************************************************************************)
(* The position card's text inputs (SimulationCard)                        *)
(***************************************************************************)
\* amountA?.toString() ?? ''
OptionalToString(x) ==
    IF x = Undefined THEN <<>> ELSE toString(x)

\* isNaN(pct) ? '0.00' : pct.toFixed(2)
PctText(pct) ==
    IF IsNaN(pct) THEN <<"0", ".", "0", "0">> ELSE toFixed(pct, 2)

\* ((priceRatio - lowerPriceBound) / priceRatio) * 100
LowerPct(priceRatio, lowerPriceBound) ==
    Mul(Div(Sub(priceRatio, lowerPriceBound), priceRatio), Num(100))

\* ((upperPriceBound - priceRatio) / priceRatio) * 100
UpperPct(priceRatio, upperPriceBound) ==
    Mul(Div(Sub(upperPriceBound, priceRatio), priceRatio), Num(100))

getValuesFromSim(sim) ==
    LET priceRatio == PriceRatio(sim.initialPriceA, sim.initialPriceB)
        lowerPct   == IF Gt(priceRatio, Zero)
                      THEN LowerPct(priceRatio, sim.lowerPriceBound) ELSE Zero
        upperPct   == IF Gt(priceRatio, Zero)
                      THEN UpperPct(priceRatio, sim.upperPriceBound) ELSE Zero
    IN  [protocol        |-> sim.protocol,
         tokenA          |-> sim.tokenA,
         tokenB          |-> sim.tokenB,
         initialPriceA   |-> toString(sim.initialPriceA),
         initialPriceB   |-> toString(sim.initialPriceB),
         amountA         |-> OptionalToString(sim.amountA),
         valueA          |-> toFixed(Mul(Coalesce(sim.amountA, Zero), sim.initialPriceA), 2),
         amountB         |-> OptionalToString(sim.amountB),
         valueB          |-> toFixed(Mul(Coalesce(sim.amountB, Zero), sim.initialPriceB), 2),
         apr             |-> toString(sim.apr),
         duration        |-> toString(sim.duration),
         lowerPriceBound |-> toString(sim.lowerPriceBound),
         upperPriceBound |-> toString(sim.upperPriceBound),
         pctLower        |-> PctText(lowerPct),
         pctUpper        |-> PctText(upperPct),
         startDate       |-> sim.startDate,
         latestPriceA    |-> toString(sim.latestPriceA),
         latestPriceB    |-> toString(sim.latestPriceB),
         shortAmount     |-> toString(sim.shortAmount),
         fundingRate     |-> toString(sim.fundingRate)]

\* The keys handleInputChange passes on as plain strings.
StringKeys ==
    {"protocol", "tokenA", "tokenB", "startDate"}

\* The keys the generic numeric branch (default:) handles.
GenericKeys ==
    {"initialPriceA", "initialPriceB", "apr", "duration",
     "latestPriceA", "latestPriceB", "shortAmount", "fundingRate"}

NumericKeys ==
    {"amountA", "valueA", "amountB", "valueB",
     "pctLower", "pctUpper", "lowerPriceBound", "upperPriceBound"} \cup GenericKeys

NoUpdate ==
    <<>>

\* Mutant of GenericUpdate: text that is no number counts as empty.
GenericUpdateZeroingUnparsable(key, value) ==
    IF ~IsNaN(parseFloat(value)) THEN key :> parseFloat(value) ELSE key :> Zero

\* The patch of the generic numeric branch (default:).
GenericUpdate(key, value) ==
    IF ~IsNaN(parseFloat(value)) THEN key :> parseFloat(value)
    ELSE IF value = <<>> THEN key :> Zero
    ELSE NoUpdate

\* handleInputChange(key, value) on a card showing `sim` with texts
\* `localValues`: the patch it sends to onUpdate (NoUpdate when it sends none)
\* and the texts it passes to setLocalValues.
handleInputChange(sim, localValues, key, value) ==
    LET newValues         == [localValues EXCEPT ![key] = value]
        numValue          == parseFloat(value)
        isValidNumber     == ~IsNaN(numValue)
        initialPriceRatio == PriceRatio(sim.initialPriceA, sim.initialPriceB)
    IN  CASE key \in StringKeys ->
               [simUpdate |-> (key :> value), newValues |-> newValues]
          [] key = "amountA" ->
               IF isValidNumber
               THEN [simUpdate |-> ("amountA" :> numValue),
                     newValues |-> [newValues EXCEPT
                                      !.valueA = toFixed(Mul(numValue, sim.initialPriceA), 2)]]
               ELSE IF value = <<>>
               THEN [simUpdate |-> ("amountA" :> Zero),
                     newValues |-> [newValues EXCEPT !.valueA = <<"0", ".", "0", "0">>]]
               ELSE [simUpdate |-> NoUpdate, newValues |-> newValues]
          [] key = "valueA" ->
               IF isValidNumber /\ Gt(sim.initialPriceA, Zero)
               THEN LET newAmount == Div(numValue, sim.initialPriceA)
                    IN  [simUpdate |-> ("amountA" :> newAmount),
                         newValues |-> [newValues EXCEPT !.amountA = toString(newAmount)]]
               ELSE IF value = <<>>
               THEN [simUpdate |-> ("amountA" :> Zero),
                     newValues |-> [newValues EXCEPT !.amountA = <<>>]]
               ELSE [simUpdate |-> NoUpdate, newValues |-> newValues]
          [] key = "amountB" ->
               IF isValidNumber
               THEN [simUpdate |-> ("amountB" :> numValue),
                     newValues |-> [newValues EXCEPT
                                      !.valueB = toFixed(Mul(numValue, sim.initialPriceB), 2)]]
               ELSE IF value = <<>>
               THEN [simUpdate |-> ("amountB" :> Zero),
                     newValues |-> [newValues EXCEPT !.valueB = <<"0", ".", "0", "0">>]]
               ELSE [simUpdate |-> NoUpdate, newValues |-> newValues]
          [] key = "valueB" ->
               IF isValidNumber /\ Gt(sim.initialPriceB, Zero)
               THEN LET newAmount == Div(numValue, sim.initialPriceB)
                    IN  [simUpdate |-> ("amountB" :> newAmount),
                         newValues |-> [newValues EXCEPT !.amountB = toString(newAmount)]]
               ELSE IF value = <<>>
               THEN [simUpdate |-> ("amountB" :> Zero),
                     newValues |-> [newValues EXCEPT !.amountB = <<>>]]
               ELSE [simUpdate |-> NoUpdate, newValues |-> newValues]
          [] key = "pctLower" ->
               IF isValidNumber /\ Gt(initialPriceRatio, Zero)
               THEN LET newPriceBound ==
                            Mul(initialPriceRatio, Sub(One, Div(numValue, Num(100))))
                    IN  [simUpdate |-> ("lowerPriceBound" :> newPriceBound),
                         newValues |-> [newValues EXCEPT
                                          !.lowerPriceBound = toString(newPriceBound)]]
               ELSE [simUpdate |-> NoUpdate, newValues |-> newValues]
          [] key = "pctUpper" ->
               IF isValidNumber /\ Gt(initialPriceRatio, Zero)
               THEN LET newPriceBound ==
                            Mul(initialPriceRatio, Add(One, Div(numValue, Num(100))))
                    IN  [simUpdate |-> ("upperPriceBound" :> newPriceBound),
                         newValues |-> [newValues EXCEPT
                                          !.upperPriceBound = toString(newPriceBound)]]
               ELSE [simUpdate |-> NoUpdate, newValues |-> newValues]
          [] key = "lowerPriceBound" ->
               IF isValidNumber
               THEN [simUpdate |-> ("lowerPriceBound" :> numValue),
                     newValues |->
                        IF Gt(initialPriceRatio, Zero)
                        THEN [newValues EXCEPT
                                !.pctLower = PctText(LowerPct(initialPriceRatio, numValue))]
                        ELSE newValues]
               ELSE [simUpdate |-> NoUpdate, newValues |-> newValues]
          [] key = "upperPriceBound" ->
               IF isValidNumber
               THEN [simUpdate |-> ("upperPriceBound" :> numValue),
                     newValues |->
                        IF Gt(initialPriceRatio, Zero)
                        THEN [newValues EXCEPT
                                !.pctUpper = PctText(UpperPct(initialPriceRatio, numValue))]
                        ELSE newValues]
               ELSE [simUpdate |-> NoUpdate, newValues |-> newValues]
          [] OTHER ->
               [simUpdate |-> GenericUpdate(key, value), newValues |-> newValues]

\* Mutant of NewShortAmount: the value of the other leg.
NewShortAmountOfOtherLeg(sim, token) ==
    LET tokenAValue == Mul(Coalesce(sim.amountA, Zero), sim.initialPriceA)
        tokenBValue == Mul(Coalesce(sim.amountB, Zero), sim.initialPriceB)
    IN  IF token = "A" THEN tokenBValue ELSE tokenAValue

\* The short size both hedge handlers compute for `token`.
NewShortAmount(sim, token) ==
    LET tokenAValue == Mul(Coalesce(sim.amountA, Zero), sim.initialPriceA)
        tokenBValue == Mul(Coalesce(sim.amountB, Zero), sim.initialPriceB)
    IN  IF token = "A" THEN tokenAValue ELSE tokenBValue

\* handleHedgeToggle(enabled): the patch, and the shortAmount text it sets
\* (none when disabling).
handleHedgeToggle(sim, localValues, enabled) ==
    IF enabled
    THEN LET newShortAmount == NewShortAmount(sim, sim.shortToken)
         IN  [simUpdate |-> [isHedgeEnabled |-> TRUE, shortAmount |-> newShortAmount],
              newValues |-> [localValues EXCEPT !.shortAmount = toFixed(newShortAmount, 2)]]
    ELSE [simUpdate |-> [isHedgeEnabled |-> FALSE], newValues |-> localValues]

handleShortTokenChange(sim, localValues, token) ==
    LET newShortAmount == NewShortAmount(sim, token)
    IN  [simUpdate |-> [shortToken |-> token, shortAmount |-> newShortAmount],
         newValues |-> [localValues EXCEPT !.shortAmount = toFixed(newShortAmount, 2)]]

(***************************************************************************)
(* The price oracle (geminiService)                                        *)
(***************************************************************************)
\* A number used in arithmetic: undefined becomes NaN.
ToNumber(x) ==
    IF x = Undefined THEN NaN ELSE x

\* Mutant of FallbackPrices: token A moves by up to 10%, token B by up to 2%.
FallbackPricesWide(sim, u, v) ==
    LET priceA == Mul(ToNumber(sim.latestPriceA),
                      Add(One, Mul(Sub(u, Rat(1, 2)), Rat(2, 10))))
        priceB == Mul(ToNumber(sim.latestPriceB),
                      Add(One, Mul(Sub(v, Rat(1, 2)), Rat(4, 100))))
    IN  [priceA |-> parseFloat(toFixed(priceA, 2)),
         priceB |-> parseFloat(toFixed(priceB, 4))]

\* The local randomizer, for the draws u and v of Math.random().
FallbackPrices(sim, u, v) ==
    LET priceA == Mul(ToNumber(sim.latestPriceA),
                      Add(One, Mul(Sub(u, Rat(1, 2)), Rat(1, 10))))
        priceB == Mul(ToNumber(sim.latestPriceB),
                      Add(One, Mul(Sub(v, Rat(1, 2)), Rat(2, 100))))
    IN  [priceA |-> parseFloat(toFixed(priceA, 2)),
         priceB |-> parseFloat(toFixed(priceB, 4))]

\* What ai.models.generateContent may do, by what the code makes of it:
\* reject; resolve without text (response.text.trim() throws); resolve with
\* text JSON.parse rejects; with the text "null" (prices.priceA throws);
\* with an object, whose priceA and priceB are what its keys hold
\* (undefined for a missing key).
OracleReplies ==
    {[kind |-> "rejects"],
     [kind |-> "notext"],
     [kind |-> "text", parse |-> "SyntaxError"],
     [kind |-> "text", parse |-> "null"],
     [kind |-> "text", parse |-> "object", priceA |-> Num(2900), priceB |-> One],
     [kind |-> "text", parse |-> "object", priceA |-> Undefined, priceB |-> Undefined]}

\* Whether the try block of fetchMockTokenPrices throws on `reply`.
TryThrows(reply) ==
    \/ reply.kind = "rejects"
    \/ reply.kind = "notext"
    \/ reply.kind = "text" /\ reply.parse \in {"SyntaxError", "null"}

\* The value fetchMockTokenPrices resolves with; `client` is the module's
\* `ai` ("null" when none was built).
fetchMockTokenPrices(sim, client, reply, u, v) ==
    IF client = "null" THEN FallbackPrices(sim, u, v)
    ELSE IF TryThrows(reply) THEN FallbackPrices(sim, u, v)
    ELSE [priceA |-> reply.priceA, priceB |-> reply.priceB]

\* Mutant of FetchPricesUpdate: the patch is the closure's whole model with
\* the new prices.
FetchPricesUpdateWholeModel(sim, prices) ==
    Merge(sim, [latestPriceA |-> prices.priceA, latestPriceB |-> prices.priceB])

\* The patch fetchPrices sends to onUpdate.
FetchPricesUpdate(sim, prices) ==
    [latestPriceA |-> prices.priceA, latestPriceB |-> prices.priceB]

\* The condition of the price-sync effect.
PricesChanged(prevSim, sim) ==
    \/ StrictNe(prevSim.latestPriceA, sim.latestPriceA)
    \/ StrictNe(prevSim.latestPriceB, sim.latestPriceB)

\* simulation.latestPriceA.toString() on undefined is a TypeError.
SyncThrows(prevSim, sim) ==
    PricesChanged(prevSim, sim)
    /\ (sim.latestPriceA = Undefined \/ sim.latestPriceB = Undefined)

\* The texts after the price-sync effect of a card whose prop went from
\* prevSim to sim.
SyncPrices(prevSim, sim, localValues) ==
    IF PricesChanged(prevSim, sim) /\ ~SyncThrows(prevSim, sim)
    THEN [localValues EXCEPT !.latestPriceA = toString(sim.latestPriceA),
                             !.latestPriceB = toString(sim.latestPriceB)]
    ELSE localValues

(***************************************************************************)
(* State                                                                   *)
(***************************************************************************)
VARIABLES
    simulations,  \* App: the collection, newest first
    cards,        \* the mounted SimulationCards, cards[j] showing simulations[j]:
                  \* localValues, isLoadingPrice and the card's oracle call
    storage,      \* localStorage: position id -> the texts under lp-sim-values-<id>
    orphans,      \* oracle calls whose card was unmounted while they were in flight
    now,          \* Date.now()
    events,       \* user events handled so far
    ai,           \* geminiService's client: "null" or "client"
    crashed,      \* an effect threw: React unmounted the tree
    simulation,   \* the prop of the card being rendered
    snapshot,     \* the value of the `calculations` memo
    day,          \* chartData: the loop variable
    dataPoints,   \* chartData: the points pushed so far
    chart,        \* the value of the `chartData` memo
    pc            \* where the render is

appVars ==
    <<simulations, cards, storage, orphans, now, events, ai, crashed>>

renderVars ==
    <<simulation, snapshot, day, dataPoints, chart, pc>>

vars ==
    <<simulations, cards, storage, orphans, now, events, ai, crashed,
      simulation, snapshot, day, dataPoints, chart, pc>>

\* Positions the collection may hold.
MaxSims ==
    2

\* Date.now() ranges over 0..MaxClock.
MaxClock ==
    1

\* User events in a run of the collection.
MaxEvents ==
    4

\* User events in a run of a single card.
MaxCardEvents ==
    2

\* Longest horizon rendered, in days.
MaxDuration ==
    3

Ids(sims) ==
    {sims[j].id : j \in DOMAIN sims}

Idle ==
    [stage |-> "idle"]

\* The card React mounts for a new position: useLocalStorage yields the
\* stored texts when the key exists, the initial value otherwise.
MountCard(sim, store) ==
    [localValues    |-> IF sim.id \in DOMAIN store THEN store[sim.id]
                        ELSE getValuesFromSim(sim),
     isLoadingPrice |-> FALSE,
     fetch          |-> Idle]

\* The collection after onUpdate(id, simUpdate); a handler that staged
\* nothing does not call onUpdate.
Updated(sims, id, simUpdate) ==
    IF DOMAIN simUpdate = {} THEN sims ELSE updateSimulation(sims, id, simUpdate)

\* The cards after card j (0: none) passed newValues to setLocalValues, the
\* collection went from sims to newSims, and the price-sync effects ran.
Rerendered(cs, sims, newSims, j, newValues) ==
    [k \in DOMAIN cs |->
        [cs[k] EXCEPT !.localValues =
            SyncPrices(sims[k], newSims[k],
                       IF k = j THEN newValues ELSE cs[k].localValues)]]

\* The cards that called setLocalValues in that step.
Writers(sims, newSims, j) ==
    {k \in DOMAIN sims : k = j \/ PricesChanged(sims[k], newSims[k])}

MaxOf(S) ==
    CHOOSE x \in S : \A y \in S : y <= x

\* useLocalStorage's setter: each writing card's texts are stored under its
\* position's key (the last writer's, when several cards share a key).
Persist(store, newSims, newCards, writers) ==
    [i \in DOMAIN store \cup {newSims[k].id : k \in writers} |->
        IF \E k \in writers : newSims[k].id = i
        THEN newCards[MaxOf({k \in writers : newSims[k].id = i})].localValues
        ELSE store[i]]

\* Whether some card's price-sync effect throws.
EffectThrows(sims, newSims) ==
    \E k \in DOMAIN sims : SyncThrows(sims[k], newSims[k])

(***************************************************************************)
(* Actions of the collection and its cards                                 *)
(***************************************************************************)
AddSimulation ==
    /\ ~crashed
    /\ Len(simulations) < MaxSims
    /\ LET sim == NewSimulation(NatToText(now))
       IN  /\ simulations' = <<sim>> \o simulations
           /\ cards' = <<MountCard(sim, storage)>> \o cards
    /\ events' = events + 1
    /\ UNCHANGED <<storage, orphans, now, ai, crashed>>
    /\ UNCHANGED renderVars

\* Time passes.
Tick ==
    /\ now < MaxClock
    /\ now' = now + 1
    /\ UNCHANGED <<simulations, cards, storage, orphans, events, ai, crashed>>
    /\ UNCHANGED renderVars

\* The calls still in flight of the cards of position `id`.
InFlight(id) ==
    LET gone == SelectSeq([j \in DOMAIN cards |-> [id |-> simulations[j].id,
                                                     fetch |-> cards[j].fetch]],
                          LAMBDA c : c.id = id /\ c.fetch.stage \in {"calling", "returned"})
    IN  [k \in DOMAIN gone |-> gone[k].fetch]

\* Mutant of removeSimulation: localStorage.removeItem is forgotten.
removeSimulationKeepingItem(sims, store, id) ==
    [simulations |-> FilterOutId(sims, id), storage |-> store]

\* removeSimulation(id): the collection and the storage afterwards.
removeSimulation(sims, store, id) ==
    [simulations |-> FilterOutId(sims, id), storage |-> RemoveItem(store, id)]

RemoveSimulation(j) ==
    /\ ~crashed
    /\ LET id   == simulations[j].id
           keep == KeptIndices(simulations, id, 1)
           r    == removeSimulation(simulations, storage, id)
       IN  /\ simulations' = r.simulations
           /\ storage' = r.storage
           /\ cards' = [k \in 1..Len(keep) |-> cards[keep[k]]]
           /\ orphans' = orphans \o InFlight(id)
    /\ events' = events + 1
    /\ UNCHANGED <<now, ai, crashed>>
    /\ UNCHANGED renderVars

\* Card j's handler staged simUpdate; card `writer` (j, or 0 when the handler
\* does not call setLocalValues) passed newValues to setLocalValues.
Commit(j, writer, simUpdate, newValues) ==
    LET newSims  == Updated(simulations, simulations[j].id, simUpdate)
        newCards == Rerendered(cards, simulations, newSims, writer, newValues)
    IN  /\ simulations' = newSims
        /\ cards' = newCards
        /\ storage' = Persist(storage, newSims, newCards,
                              Writers(simulations, newSims, writer))
        /\ crashed' = EffectThrows(simulations, newSims)

\* The inputs of shortAmount and fundingRate are rendered only while the
\* hedge is enabled.
HandleInputChange(j, key, value) ==
    /\ ~crashed
    /\ key \in {"shortAmount", "fundingRate"} => simulations[j].isHedgeEnabled
    /\ LET r == handleInputChange(simulations[j], cards[j].localValues, key, value)
       IN  Commit(j, j, r.simUpdate, r.newValues)
    /\ events' = events + 1
    /\ UNCHANGED <<orphans, now, ai>>
    /\ UNCHANGED renderVars

\* The displayed pctLower is submitted as it stands.
ResubmitPctLower(j) ==
    HandleInputChange(j, "pctLower", cards[j].localValues.pctLower)

\* The Toggle calls onChange(!enabled).
HandleHedgeToggle(j) ==
    /\ ~crashed
    /\ LET enabled == ~simulations[j].isHedgeEnabled
           r       == handleHedgeToggle(simulations[j], cards[j].localValues, enabled)
       IN  Commit(j, IF enabled THEN j ELSE 0, r.simUpdate, r.newValues)
    /\ events' = events + 1
    /\ UNCHANGED <<orphans, now, ai>>
    /\ UNCHANGED renderVars

\* The two token buttons are rendered only while the hedge is enabled.
HandleShortTokenChange(j, token) ==
    /\ ~crashed
    /\ simulations[j].isHedgeEnabled
    /\ LET r == handleShortTokenChange(simulations[j], cards[j].localValues, token)
       IN  Commit(j, j, r.simUpdate, r.newValues)
    /\ events' = events + 1
    /\ UNCHANGED <<orphans, now, ai>>
    /\ UNCHANGED renderVars

\* Mutant of FetchPricesStart: the button is never disabled.
FetchPricesStartWhileLoading(j) ==
    /\ ~crashed
    /\ cards' = [cards EXCEPT ![j].isLoadingPrice = TRUE,
                              ![j].fetch = [stage |-> "calling",
                                            simulation |-> simulations[j]]]
    /\ events' = events + 1
    /\ UNCHANGED <<simulations, storage, orphans, now, ai, crashed>>
    /\ UNCHANGED renderVars

\* fetchPrices up to its await; the button is disabled while isLoadingPrice.
FetchPricesStart(j) ==
    /\ ~crashed
    /\ ~cards[j].isLoadingPrice
    /\ cards' = [cards EXCEPT ![j].isLoadingPrice = TRUE,
                              ![j].fetch = [stage |-> "calling",
                                            simulation |-> simulations[j]]]
    /\ events' = events + 1
    /\ UNCHANGED <<simulations, storage, orphans, now, ai, crashed>>
    /\ UNCHANGED renderVars

Returned(call, reply, u, v) ==
    [stage      |-> "returned",
     simulation |-> call.simulation,
     prices     |-> fetchMockTokenPrices(call.simulation, ai, reply, u, v)]

\* The call as fetchPrices leaves it: its closure's simulation, the prices it
\* got and the model its card showed when the patch was sent (undefined for
\* a call without a card).
Done(call, onto) ==
    [stage      |-> "done",
     simulation |-> call.simulation,
     prices     |-> call.prices,
     onto       |-> onto]

\* fetchMockTokenPrices settles for card j.
FetchMockTokenPrices(j, reply, u, v) ==
    /\ ~crashed
    /\ cards[j].fetch.stage = "calling"
    /\ cards' = [cards EXCEPT ![j].fetch = Returned(cards[j].fetch, reply, u, v)]
    /\ UNCHANGED <<simulations, storage, orphans, now, events, ai, crashed>>
    /\ UNCHANGED renderVars

\* fetchPrices after its await: onUpdate, then finally.
FetchPricesContinue(j) ==
    /\ ~crashed
    /\ cards[j].fetch.stage = "returned"
    /\ LET call     == cards[j].fetch
           newSims  == Updated(simulations, call.simulation.id,
                               FetchPricesUpdate(call.simulation, call.prices))
           newCards == Rerendered(cards, simulations, newSims, 0, <<>>)
       IN  /\ simulations' = newSims
           /\ cards' = [newCards EXCEPT ![j].isLoadingPrice = FALSE,
                                        ![j].fetch = Done(call, simulations[j])]
           /\ storage' = Persist(storage, newSims, newCards,
                                 Writers(simulations, newSims, 0))
           /\ crashed' = EffectThrows(simulations, newSims)
    /\ UNCHANGED <<orphans, now, events, ai>>
    /\ UNCHANGED renderVars

\* The same two steps for a call whose card is gone.
OrphanFetchMockTokenPrices(k, reply, u, v) ==
    /\ ~crashed
    /\ orphans[k].stage = "calling"
    /\ orphans' = [orphans EXCEPT ![k] = Returned(orphans[k], reply, u, v)]
    /\ UNCHANGED <<simulations, cards, storage, now, events, ai, crashed>>
    /\ UNCHANGED renderVars

OrphanFetchPricesContinue(k) ==
    /\ ~crashed
    /\ orphans[k].stage = "returned"
    /\ LET call     == orphans[k]
           newSims  == Updated(simulations, call.simulation.id,
                               FetchPricesUpdate(call.simulation, call.prices))
           newCards == Rerendered(cards, simulations, newSims, 0, <<>>)
       IN  /\ simulations' = newSims
           /\ cards' = newCards
           /\ storage' = Persist(storage, newSims, newCards,
                                 Writers(simulations, newSims, 0))
           /\ crashed' = EffectThrows(simulations, newSims)
           /\ orphans' = [orphans EXCEPT ![k] = Done(call, Undefined)]
    /\ UNCHANGED <<now, events, ai>>
    /\ UNCHANGED renderVars

(***************************************************************************)
(* Rendering one card: the two memos                                       *)
(***************************************************************************)
NoSnapshot ==
    <<>>

RenderCalculations ==
    /\ pc = "calculations"
    /\ snapshot' = calculations(simulation)
    /\ pc' = "chartData"
    /\ UNCHANGED <<simulation, day, dataPoints, chart>>
    /\ UNCHANGED appVars

\* if (duration <= 0 || !amountA || !amountB) return [];
ChartDataEmpty ==
    /\ pc = "chartData"
    /\ ChartIsEmpty(simulation)
    /\ chart' = <<>>
    /\ pc' = "done"
    /\ UNCHANGED <<simulation, snapshot, day, dataPoints>>
    /\ UNCHANGED appVars

\* const dataPoints = []; for (let day = 0; ...
ChartDataStart ==
    /\ pc = "chartData"
    /\ ~ChartIsEmpty(simulation)
    /\ dataPoints' = <<>>
    /\ day' = Zero
    /\ pc' = "loop"
    /\ UNCHANGED <<simulation, snapshot, chart>>
    /\ UNCHANGED appVars

\* One iteration: push the point, day++.
ChartDataLoop ==
    /\ pc = "loop"
    /\ ChartLoopCond(day, simulation.duration)
    /\ dataPoints' = Append(dataPoints, ChartPoint(simulation, day))
    /\ day' = ChartNextDay(day)
    /\ UNCHANGED <<simulation, snapshot, chart, pc>>
    /\ UNCHANGED appVars

\* return dataPoints;
ChartDataReturn ==
    /\ pc = "loop"
    /\ ~ChartLoopCond(day, simulation.duration)
    /\ chart' = dataPoints
    /\ pc' = "done"
    /\ UNCHANGED <<simulation, snapshot, day, dataPoints>>
    /\ UNCHANGED appVars

(***************************************************************************)
(* Inputs                                                                  *)
(***************************************************************************)
\* Math.random() lies in [0, 1).
RandomDraws ==
    {Zero, Rat(1, 2)}

\* Edits made in runs of the collection.
AppKeys ==
    {"apr", "latestPriceA"}

AppTexts ==
    {<<"7">>, <<>>}

\* Texts typed into a single card, per key.
CardTexts(key) ==
    {<<>>, <<"a", "b", "c">>, <<"-", "1">>, <<"2", ".", "5">>}
    \cup (IF key \in {"initialPriceA", "lowerPriceBound"}
          THEN {<<"4", "0", "0", "0">>} ELSE {})
    \cup (IF key = "lowerPriceBound" THEN {<<"2", "5", "0", "0">>} ELSE {})
    \cup (IF key \in {"initialPriceB", "duration"} THEN {<<"0">>} ELSE {})
    \cup (IF key \in {"pctLower", "pctUpper"} THEN {<<"1", "0">>} ELSE {})

\* The hedged position of the spec's scenario: 1500 short of token A over 30
\* days, token A at 2700, at two prices of token B.
HedgeScenario ==
    {Merge(NewSimulation(<<"0">>),
           [isHedgeEnabled |-> TRUE,
            shortToken     |-> "A",
            shortAmount    |-> Num(1500),
            latestPriceA   |-> Num(2700),
            latestPriceB   |-> lb]) :
        lb \in {One, Num(2)}}

\* The range bounds of the render's models: a proper range, an empty one and
\* one that is a single price.
RenderBounds ==
    {[lowerPriceBound |-> Num(2400), upperPriceBound |-> Num(3600)],
     [lowerPriceBound |-> Num(3600), upperPriceBound |-> Num(2400)],
     [lowerPriceBound |-> Num(3000), upperPriceBound |-> Num(3000)]}

\* Models handed to the render: the seed with these fields replaced, and the
\* hedge scenario.
RenderModels ==
    {Merge(NewSimulation(<<"0">>),
           [amountA         |-> a,
            amountB         |-> b,
            duration        |-> d,
            initialPriceB   |-> ib,
            latestPriceA    |-> la,
            latestPriceB    |-> lb,
            lowerPriceBound |-> r.lowerPriceBound,
            upperPriceBound |-> r.upperPriceBound,
            isHedgeEnabled  |-> h,
            shortToken      |-> t]) :
        a  \in {Undefined, Zero, Rat(1, 2), Num(-1)},
        b  \in {Undefined, Zero, Num(1500)},
        d  \in {Rat(n, 2) : n \in -2..(2 * MaxDuration)},
        ib \in {Zero, One},
        la \in {Num(3000), Num(2700), Num(12000)},
        lb \in {Zero, One, Num(4)},
        r  \in RenderBounds,
        h  \in BOOLEAN,
        t  \in {"A", "B"}}
    \cup HedgeScenario

(***************************************************************************)
(* Specifications                                                          *)
(***************************************************************************)
NotRendering ==
    /\ simulation = Undefined
    /\ snapshot = NoSnapshot
    /\ day = Zero
    /\ dataPoints = <<>>
    /\ chart = <<>>
    /\ pc = "idle"

\* The application: an empty collection.
Init ==
    /\ simulations = <<>>
    /\ cards = <<>>
    /\ storage = <<>>
    /\ orphans = <<>>
    /\ now = 0
    /\ events = 0
    /\ ai \in {"null", "client"}
    /\ crashed = FALSE
    /\ NotRendering

UserEvent ==
    \/ AddSimulation
    \/ \E j \in DOMAIN simulations : RemoveSimulation(j)
    \/ \E j \in DOMAIN simulations, key \in AppKeys, value \in AppTexts :
          HandleInputChange(j, key, value)
    \/ \E j \in DOMAIN simulations : HandleHedgeToggle(j)
    \/ \E j \in DOMAIN simulations, token \in {"A", "B"} : HandleShortTokenChange(j, token)
    \/ \E j \in DOMAIN simulations : FetchPricesStart(j)

Callback ==
    \/ \E j \in DOMAIN cards, reply \in OracleReplies, u \in RandomDraws, v \in RandomDraws :
          FetchMockTokenPrices(j, reply, u, v)
    \/ \E j \in DOMAIN cards : FetchPricesContinue(j)
    \/ \E k \in DOMAIN orphans, reply \in OracleReplies, u \in RandomDraws, v \in RandomDraws :
          OrphanFetchMockTokenPrices(k, reply, u, v)
    \/ \E k \in DOMAIN orphans : OrphanFetchPricesContinue(k)

Next ==
    \/ events < MaxEvents /\ UserEvent
    \/ Tick
    \/ Callback

Spec ==
    Init /\ [][Next]_vars

\* One card, seeded by addSimulation.
InitCard ==
    /\ simulations = <<NewSimulation(<<"0">>)>>
    /\ cards = <<MountCard(NewSimulation(<<"0">>), <<>>)>>
    /\ storage = <<>>
    /\ orphans = <<>>
    /\ now = 0
    /\ events = 0
    /\ ai \in {"null", "client"}
    /\ crashed = FALSE
    /\ NotRendering

CardEvent ==
    \/ \E key \in NumericKeys : \E value \in CardTexts(key) : HandleInputChange(1, key, value)
    \/ HandleInputChange(1, "protocol", "Aave")
    \/ ResubmitPctLower(1)
    \/ HandleHedgeToggle(1)
    \/ \E token \in {"A", "B"} : HandleShortTokenChange(1, token)
    \/ FetchPricesStart(1)

NextCard ==
    \/ events < MaxCardEvents /\ CardEvent
    \/ \E reply \in OracleReplies, u \in RandomDraws, v \in RandomDraws :
          FetchMockTokenPrices(1, reply, u, v)
    \/ FetchPricesContinue(1)

SpecCard ==
    InitCard /\ [][NextCard]_vars

\* One render of a card, for each model of RenderModels.
InitRender ==
    /\ simulations = <<>>
    /\ cards = <<>>
    /\ storage = <<>>
    /\ orphans = <<>>
    /\ now = 0
    /\ events = 0
    /\ ai = "null"
    /\ crashed = FALSE
    /\ simulation \in RenderModels
    /\ snapshot = NoSnapshot
    /\ day = Zero
    /\ dataPoints = <<>>
    /\ chart = <<>>
    /\ pc = "calculations"

NextRender ==
    \/ RenderCalculations
    \/ ChartDataEmpty
    \/ ChartDataStart
    \/ ChartDataLoop
    \/ ChartDataReturn

SpecRender ==
    InitRender /\ [][NextRender]_vars

\* User events in a run of the price updates.
MaxOracleEvents ==
    3

\* Math.random() in the runs of the price updates: the least draw, the
\* middle and one close to 1.
OracleDraws ==
    {Zero, Rat(1, 2), Rat(99, 100)}

\* Latest prices typed before an update, per key.
OracleTexts(key) ==
    IF key = "latestPriceA"
    THEN {<<"0", ".", "0", "0", "4">>, <<"0", ".", "0", "1">>}
    ELSE {<<"0", ".", "5">>}

\* The replies on which fetchMockTokenPrices falls back to the randomizer.
FailingReplies ==
    {reply \in OracleReplies : TryThrows(reply)}

\* One card whose latest prices are typed and then updated by the local
\* randomizer only: no client, or a client whose call fails.
OracleEvent ==
    \/ \E key \in {"latestPriceA", "latestPriceB"} : \E value \in OracleTexts(key) :
          HandleInputChange(1, key, value)
    \/ FetchPricesStart(1)

NextOracle ==
    \/ events < MaxOracleEvents /\ OracleEvent
    \/ \E reply \in FailingReplies, u \in OracleDraws, v \in OracleDraws :
          FetchMockTokenPrices(1, reply, u, v)
    \/ FetchPricesContinue(1)

SpecOracle ==
    InitCard /\ [][NextOracle]_vars

(***************************************************************************)
(* Properties of a render (SpecRender)                                     *)
(***************************************************************************)
AmountsSet ==
    Truthy(simulation.amountA) /\ Truthy(simulation.amountB)

\* C1: whenever the projection is non-empty, its last point has
\* day = duration and the holdValue and earnedFees of the valuation snapshot
\* of the same model.
C1_EndpointMatchesSnapshot ==
    (pc = "done" /\ chart # <<>>) =>
        LET last == chart[Len(chart)]
        IN  /\ last.day = simulation.duration
            /\ last.holdValue = snapshot.holdValue
            /\ last.earnedFees = snapshot.earnedFees

\* C8: the projection is empty exactly when duration <= 0 or amountA or
\* amountB is zero or unset.
C8_EmptyExactlyWhenGuarded ==
    pc = "done" =>
        (chart = <<>> <=>
            \/ Le(simulation.duration, Zero)
            \/ simulation.amountA \in {Undefined, Zero}
            \/ simulation.amountB \in {Undefined, Zero})

\* C8's case: a positive horizon, an amount unset, no projection.
C8_Witness ==
    /\ pc = "done"
    /\ chart = <<>>
    /\ Gt(simulation.duration, Zero)
    /\ simulation.amountA = Undefined
    /\ Truthy(simulation.amountB)

\* C9 as claimed: with duration = 0 and both amounts set the projection is the
\* single point of day 0.
C9_ZeroDurationSinglePoint ==
    (pc = "done" /\ simulation.duration = Zero /\ AmountsSet) =>
        (Len(chart) = 1 /\ chart[1].day = Zero)

\* C9 as the code has it: with duration = 0 and both amounts set the
\* projection is empty; it is the single point of day 0 exactly when
\* 0 < duration < 1.
C9_ZeroDurationEmpty ==
    (pc = "done" /\ AmountsSet) =>
        /\ simulation.duration = Zero => chart = <<>>
        /\ (Len(chart) = 1 /\ chart[1].day = Zero)
              <=> (Gt(simulation.duration, Zero) /\ Lt(simulation.duration, One))

C9_Witness ==
    pc = "done" /\ simulation.duration = Zero /\ AmountsSet /\ chart = <<>>

\* The days of the projection are 0, 1, ..., in this order, one for each
\* integer of [0, duration]: duration + 1 points ending with day = duration
\* when duration is an integer.
DaysOfHorizon ==
    (pc = "done" /\ Gt(simulation.duration, Zero) /\ AmountsSet) =>
        /\ Len(chart) = Floor(simulation.duration) + 1
        /\ \A i \in 1..Len(chart) : chart[i].day = Num(i - 1)
        /\ IsInteger(simulation.duration) =>
              chart[Len(chart)].day = simulation.duration

\* The iterations the loop of chartData has still to make.
Remaining ==
    Floor(simulation.duration) + 1 - Len(dataPoints)

\* C10: for duration = d > 0 and both amounts set the projection has one
\* point for each integer day of [0, d], in increasing order of day, and the
\* computation ends: the loop never has fewer than 0 iterations left and
\* each iteration leaves it one fewer.
C10_OnePointPerDayAndEnds ==
    /\ []DaysOfHorizon
    /\ [](pc = "loop" => Remaining >= 0)
    /\ [][(pc = "loop" /\ pc' = "loop") => Remaining' < Remaining]_vars

C10_Witness ==
    /\ pc = "done"
    /\ simulation.duration = Num(MaxDuration)
    /\ AmountsSet
    /\ Len(chart) = MaxDuration + 1

(***************************************************************************)
(* Properties of a card (SpecCard)                                         *)
(***************************************************************************)
\* A percentage text as a number shown to two decimals.
ShownPct(text) ==
    toFixed(parseFloat(text), 2)

\* The percentage the model's bound stands for, to two decimals: 0 when the
\* ratio of the initial prices is not positive.
BoundPct(priceRatio, pct) ==
    IF Gt(priceRatio, Zero) THEN toFixed(pct, 2) ELSE <<"0", ".", "0", "0">>

\* C2: after every edit handleInputChange has processed, each displayed
\* percentage that is a number equals, to two decimals, the percentage its
\* bound of the model stands for at the ratio of the model's initial prices.
C2_PctTextsMatchBounds ==
    \A j \in DOMAIN simulations :
        LET sim        == simulations[j]
            shown      == cards[j].localValues
            priceRatio == PriceRatio(sim.initialPriceA, sim.initialPriceB)
        IN  /\ ~IsNaN(parseFloat(shown.pctLower)) =>
                  ShownPct(shown.pctLower)
                     = BoundPct(priceRatio, LowerPct(priceRatio, sim.lowerPriceBound))
            /\ ~IsNaN(parseFloat(shown.pctUpper)) =>
                  ShownPct(shown.pctUpper)
                     = BoundPct(priceRatio, UpperPct(priceRatio, sim.upperPriceBound))

\* C3: in every reachable state amountA, amountB and shortAmount are at least
\* 0 and duration is an integer that is at least 0.
C3_InputsInRange ==
    \A j \in DOMAIN simulations :
        LET sim == simulations[j]
        IN  /\ Ge(sim.amountA, Zero)
            /\ Ge(sim.amountB, Zero)
            /\ Ge(sim.shortAmount, Zero)
            /\ IsInteger(sim.duration)
            /\ Ge(sim.duration, Zero)

(***************************************************************************)
(* Properties of the collection (Spec)                                     *)
(***************************************************************************)
\* C4: the ids of the positions of the collection are pairwise distinct after
\* every addSimulation, updateSimulation and removeSimulation.
C4_IdsAreDistinct ==
    \A j, k \in DOMAIN simulations :
        j # k => simulations[j].id # simulations[k].id

\* The calls of fetchMockTokenPrices that have settled.
Settled ==
    {cards[j].fetch : j \in {i \in DOMAIN cards : cards[i].fetch.stage \in {"returned", "done"}}}
        \cup {orphans[k] : k \in {i \in DOMAIN orphans : orphans[i].stage \in {"returned", "done"}}}

\* C5: every call of fetchMockTokenPrices that has settled gave a result
\* whose priceA and priceB are numbers, the local fallback of its position's
\* latest prices when there is no client.
C5_ResultIsNumeric ==
    \A call \in Settled :
        /\ IsNumber(call.prices.priceA)
        /\ IsNumber(call.prices.priceB)
        /\ ai = "null" =>
              \E u \in RandomDraws, v \in RandomDraws :
                  call.prices = FallbackPrices(call.simulation, u, v)

\* The collection after the result `prices` was applied to position `id`:
\* only the two latest prices of that position differ.
WithPrices(sims, id, prices) ==
    [k \in DOMAIN sims |->
        IF sims[k].id = id
        THEN [sims[k] EXCEPT !.latestPriceA = prices.priceA,
                             !.latestPriceB = prices.priceB]
        ELSE sims[k]]

\* C6: the step that applies an oracle result to a position, whatever was
\* edited while the call was in flight, overwrites latestPriceA and
\* latestPriceB of that position with the result and leaves every other field
\* of every position as the edits left it.
C6_ResultOverwritesOnlyPrices ==
    [][/\ \A j \in DOMAIN cards :
             (/\ events' = events
              /\ Len(cards') = Len(cards)
              /\ cards[j].fetch.stage = "returned"
              /\ cards'[j].fetch.stage = "done")
                 => simulations' = WithPrices(simulations,
                                              cards[j].fetch.simulation.id,
                                              cards[j].fetch.prices)
       /\ \A k \in DOMAIN orphans :
             (/\ events' = events
              /\ Len(orphans') = Len(orphans)
              /\ orphans[k].stage = "returned"
              /\ orphans'[k].stage = "done")
                 => simulations' = WithPrices(simulations,
                                              orphans[k].simulation.id,
                                              orphans[k].prices)]_vars

\* C6's case: a result was applied to a position whose apr and latestPriceA
\* were edited while the call was in flight; the edit of apr stands and the
\* result's priceA is the latest price.
C6_Witness ==
    \E j \in DOMAIN cards :
        /\ cards[j].fetch.stage = "done"
        /\ cards[j].fetch.onto.apr # cards[j].fetch.simulation.apr
        /\ cards[j].fetch.onto.latestPriceA # cards[j].fetch.simulation.latestPriceA
        /\ simulations[j].apr = cards[j].fetch.onto.apr
        /\ simulations[j].latestPriceA = cards[j].fetch.prices.priceA
        /\ simulations[j].latestPriceA # cards[j].fetch.onto.latestPriceA

\* C7: removeSimulation(id) takes every position of that id out of the
\* collection and its cache out of the storage, no callback brings a position
\* into the collection, and the storage holds a cache only for positions of
\* the collection.
C7_RemovedStaysRemoved ==
    /\ [][/\ \A id \in Ids(simulations) \ Ids(simulations') :
                id \notin DOMAIN storage'
          /\ events' = events => Ids(simulations') = Ids(simulations)]_vars
    /\ [](DOMAIN storage \subseteq Ids(simulations))

\* C7's case: a position whose texts were edited was removed while its
\* oracle call was pending, and the call has run to its end.
C7_Witness ==
    \E k \in DOMAIN orphans :
        /\ orphans[k].stage = "done"
        /\ orphans[k].simulation.apr # NewSimulation(<<"0">>).apr
        /\ orphans[k].simulation.id \notin Ids(simulations)
        /\ orphans[k].simulation.id \notin DOMAIN storage

(***************************************************************************)
(* Properties of the valuation snapshot and the projection (SpecRender)    *)
(***************************************************************************)
Computed ==
    snapshot # NoSnapshot

\* The numeric fields of the valuation snapshot.
SnapshotNumbers ==
    {"initialInvestment", "earnedFees", "impermanentLoss", "impermanentLossPct",
     "holdValue", "finalLpValue", "lpNetReturn", "lpNetReturnPct", "shortPnl",
     "fundingPnl", "totalNetReturn", "totalNetReturnPct", "finalTotalValue"}

FinitePoints(points) ==
    \A i \in DOMAIN points :
        /\ IsFinite(points[i].day)
        /\ IsFinite(points[i].totalValue)
        /\ IsFinite(points[i].holdValue)
        /\ IsFinite(points[i].earnedFees)

\* C11: every number of the valuation snapshot and of every point the
\* projection emits is a defined finite number (no quotient by zero and no
\* square root of a negative number reaches an output), for every model,
\* the degenerate ones included.
C11_OutputsAreFinite ==
    /\ Computed =>
          /\ \A f \in SnapshotNumbers : IsFinite(snapshot[f])
          /\ IsFinite(snapshot.priceRange.current)
          /\ snapshot.isInRange \in BOOLEAN
    /\ FinitePoints(dataPoints)
    /\ FinitePoints(chart)

\* C11's case: both prices of token B are 0, the range is empty, and the
\* render has produced its snapshot and a projection.
C11_Witness ==
    /\ pc = "done"
    /\ simulation.initialPriceB = Zero
    /\ simulation.latestPriceB = Zero
    /\ Le(simulation.upperPriceBound, simulation.lowerPriceBound)
    /\ chart # <<>>
    /\ IsFinite(snapshot.finalLpValue)

\* The ratios of the model's prices, 0 when the price of token B is not
\* positive.
InitialRatio ==
    IF Gt(simulation.initialPriceB, Zero)
    THEN Div(simulation.initialPriceA, simulation.initialPriceB) ELSE Zero

LatestRatio ==
    IF Gt(simulation.latestPriceB, Zero)
    THEN Div(simulation.latestPriceA, simulation.latestPriceB) ELSE Zero

\* C12: whenever initialRatio <= 0 or latestRatio <= 0 or
\* upperPriceBound <= lowerPriceBound, the snapshot has
\* finalLpValue = holdValue, impermanentLoss = 0 and impermanentLossPct = 0.
C12_NoLossOutsidePreconditions ==
    (/\ Computed
     /\ \/ Le(InitialRatio, Zero)
        \/ Le(LatestRatio, Zero)
        \/ Le(simulation.upperPriceBound, simulation.lowerPriceBound))
        => /\ snapshot.finalLpValue = snapshot.holdValue
           /\ snapshot.impermanentLoss = Zero
           /\ snapshot.impermanentLossPct = Zero

\* C12's case: the ratio has moved and the position has value, and only the
\* empty range keeps the loss from being applied.
C12_Witness ==
    /\ Computed
    /\ Gt(InitialRatio, Zero)
    /\ Gt(LatestRatio, Zero)
    /\ LatestRatio # InitialRatio
    /\ Lt(simulation.upperPriceBound, simulation.lowerPriceBound)
    /\ Gt(snapshot.holdValue, Zero)
    /\ snapshot.finalLpValue = snapshot.holdValue

\* C13: when latestPriceA / latestPriceB equals initialPriceA / initialPriceB
\* the snapshot has finalLpValue = holdValue and impermanentLoss = 0, whatever
\* the bounds, amounts, apr, duration and hedge settings.
C13_NoLossAtUnchangedRatio ==
    (/\ Computed
     /\ Gt(simulation.initialPriceB, Zero)
     /\ Gt(simulation.latestPriceB, Zero)
     /\ Div(simulation.latestPriceA, simulation.latestPriceB)
           = Div(simulation.initialPriceA, simulation.initialPriceB))
        => /\ snapshot.finalLpValue = snapshot.holdValue
           /\ snapshot.impermanentLoss = Zero

\* C13's case: both prices have moved, their ratio has not, the range is a
\* proper one and the position has value.
C13_Witness ==
    /\ Computed
    /\ simulation.latestPriceA # simulation.initialPriceA
    /\ Gt(LatestRatio, Zero)
    /\ LatestRatio = InitialRatio
    /\ Gt(simulation.upperPriceBound, simulation.lowerPriceBound)
    /\ Gt(snapshot.holdValue, Zero)
    /\ snapshot.finalLpValue = snapshot.holdValue

(***************************************************************************)
(* Properties of the bound conversion (SpecCard)                           *)
(***************************************************************************)
\* The model's lowerPriceBound of card j lies between 0 and the positive
\* ratio of the initial prices, and the displayed pctLower is the text an
\* edit of lowerPriceBound sets for it.
PctLowerSetFromBound(j) ==
    LET sim        == simulations[j]
        priceRatio == PriceRatio(sim.initialPriceA, sim.initialPriceB)
    IN  /\ Gt(priceRatio, Zero)
        /\ Gt(sim.lowerPriceBound, Zero)
        /\ Lt(sim.lowerPriceBound, priceRatio)
        /\ cards[j].localValues.pctLower
              = PctText(LowerPct(priceRatio, sim.lowerPriceBound))

\* C14: at a positive ratio of the initial prices, submitting the pctLower
\* that an edit of lowerPriceBound to a value below that ratio displayed
\* leaves the model's lowerPriceBound as that edit set it.
C14_BoundRoundTrip ==
    [][\A j \in DOMAIN simulations :
          (PctLowerSetFromBound(j) /\ ResubmitPctLower(j))
             => simulations'[j].lowerPriceBound = simulations[j].lowerPriceBound]_vars

\* The model with another short leg, short size and funding rate.
OtherHedge ==
    [simulation EXCEPT !.shortToken  = IF @ = "A" THEN "B" ELSE "A",
                       !.shortAmount = Add(@, Num(1000)),
                       !.fundingRate = Add(@, One)]

\* C15: with the hedge disabled shortPnl and fundingPnl are 0,
\* totalNetReturn = lpNetReturn and finalTotalValue = initialInvestment +
\* lpNetReturn, and neither changes with shortAmount, fundingRate or
\* shortToken; with the hedge enabled totalNetReturn = lpNetReturn + shortPnl
\* + fundingPnl.
C15_HedgeTermsOnlyWhenEnabled ==
    Computed =>
        /\ ~simulation.isHedgeEnabled =>
              /\ snapshot.shortPnl = Zero
              /\ snapshot.fundingPnl = Zero
              /\ snapshot.totalNetReturn = snapshot.lpNetReturn
              /\ snapshot.finalTotalValue
                    = Add(snapshot.initialInvestment, snapshot.lpNetReturn)
              /\ calculations(OtherHedge).totalNetReturn = snapshot.totalNetReturn
              /\ calculations(OtherHedge).finalTotalValue = snapshot.finalTotalValue
        /\ simulation.isHedgeEnabled =>
              /\ snapshot.totalNetReturn
                    = Add(snapshot.lpNetReturn, Add(snapshot.shortPnl, snapshot.fundingPnl))
              /\ snapshot.finalTotalValue
                    = Add(snapshot.initialInvestment, snapshot.totalNetReturn)

\* C15's case: the hedge is disabled on a position whose shorted leg has
\* moved over a positive horizon.
C15_Witness ==
    /\ Computed
    /\ ~simulation.isHedgeEnabled
    /\ simulation.shortToken = "A"
    /\ simulation.latestPriceA # simulation.initialPriceA
    /\ Gt(simulation.shortAmount, Zero)
    /\ Gt(simulation.duration, Zero)
    /\ snapshot.totalNetReturn = snapshot.lpNetReturn

\* The prices of the shorted leg, and the model with the latest price of the
\* other leg moved.
ShortedInitial ==
    IF simulation.shortToken = "A" THEN simulation.initialPriceA ELSE simulation.initialPriceB

ShortedLatest ==
    IF simulation.shortToken = "A" THEN simulation.latestPriceA ELSE simulation.latestPriceB

OtherLegMoved ==
    IF simulation.shortToken = "A"
    THEN [simulation EXCEPT !.latestPriceB = IF @ = One THEN Num(4) ELSE One]
    ELSE [simulation EXCEPT !.latestPriceA = IF @ = Num(3000) THEN Num(2700) ELSE Num(3000)]

\* C16: with the hedge enabled shortPnl is shortAmount * (initialPriceX -
\* latestPriceX) / initialPriceX for the shorted leg X (0 when initialPriceX
\* <= 0) and does not change with the latest price of the other leg,
\* fundingPnl is -(shortAmount * fundingRate * duration) / 100, and the
\* scenario (A, 1500, 0.01, 30 days, 3000 -> 2700) gives 150 and -4.5.
C16_ShortAndFundingPnl ==
    (Computed /\ simulation.isHedgeEnabled) =>
        /\ snapshot.shortPnl
              = IF Gt(ShortedInitial, Zero)
                THEN Div(Mul(simulation.shortAmount, Sub(ShortedInitial, ShortedLatest)),
                         ShortedInitial)
                ELSE Zero
        /\ calculations(OtherLegMoved).shortPnl = snapshot.shortPnl
        /\ snapshot.fundingPnl
              = Neg(Div(Mul(Mul(simulation.shortAmount, simulation.fundingRate),
                            simulation.duration), Num(100)))
        /\ simulation \in HedgeScenario =>
              /\ snapshot.shortPnl = Num(150)
              /\ snapshot.fundingPnl = Rat(-9, 2)

\* C16's case: the scenario, at the moved price of token B.
C16_Witness ==
    /\ Computed
    /\ simulation \in HedgeScenario
    /\ simulation.shortAmount = Num(1500)
    /\ simulation.duration = Num(30)
    /\ simulation.latestPriceB = Num(2)
    /\ snapshot.shortPnl = Num(150)
    /\ snapshot.fundingPnl = Rat(-9, 2)

\* C17: the snapshot of the model with twice the duration, and of the model
\* with twice the apr, has exactly twice the earnedFees; earnedFees is 0
\* when duration is 0.
C17_FeesAreLinear ==
    Computed =>
        /\ calculations([simulation EXCEPT !.duration = Mul(Num(2), @)]).earnedFees
              = Mul(Num(2), snapshot.earnedFees)
        /\ calculations([simulation EXCEPT !.apr = Mul(Num(2), @)]).earnedFees
              = Mul(Num(2), snapshot.earnedFees)
        /\ simulation.duration = Zero => snapshot.earnedFees = Zero

\* C17's case: a position with value over a positive horizon earns fees.
C17_Witness ==
    /\ Computed
    /\ Gt(simulation.duration, Zero)
    /\ Gt(snapshot.initialInvestment, Zero)
    /\ Gt(snapshot.earnedFees, Zero)
    /\ calculations([simulation EXCEPT !.duration = Mul(Num(2), @)]).earnedFees
          = Mul(Num(2), snapshot.earnedFees)

\* Ratio changes whose square root is rational, so that Sqrt is exact on them:
\* the squares n^2/d^2 with n, d up to MaxRoot.
MaxRoot ==
    6

SquareRatios ==
    {Rat(n * n, d * d) : n \in 1..MaxRoot, d \in 1..MaxRoot}

\* The ratio change of the model under render (both ratios positive).
RatioChange ==
    Div(LatestRatio, InitialRatio)

AmountsNonNegative ==
    /\ Ge(Coalesce(simulation.amountA, Zero), Zero)
    /\ Ge(Coalesce(simulation.amountB, Zero), Zero)

\* The factor is <= 0 on every square ratio, and 0 only at 1.
FactorIsALoss ==
    \A k \in SquareRatios :
        /\ Le(ImpermanentLossFactor(k), Zero)
        /\ ImpermanentLossFactor(k) = Zero <=> k = One

\* C18: the impermanent-loss factor is <= 0 for every ratio change k > 0 and
\* is 0 only at k = 1; and for every model with amountA >= 0 and amountB >= 0
\* the snapshot has finalLpValue <= holdValue and impermanentLoss <= 0.
C18_LossIsNeverAGain ==
    /\ FactorIsALoss
    /\ (Computed /\ Gt(InitialRatio, Zero) /\ Gt(LatestRatio, Zero)) =>
          /\ Le(ImpermanentLossFactor(RatioChange), Zero)
          /\ ImpermanentLossFactor(RatioChange) = Zero <=> RatioChange = One
    /\ (Computed /\ AmountsNonNegative) =>
          /\ Le(snapshot.finalLpValue, snapshot.holdValue)
          /\ Le(snapshot.impermanentLoss, Zero)

\* C18's case: a position with non-negative amounts whose ratio quadrupled
\* is worth strictly less than holding.
C18_Witness ==
    /\ Computed
    /\ AmountsNonNegative
    /\ Gt(InitialRatio, Zero)
    /\ RatioChange = Num(4)
    /\ Lt(snapshot.finalLpValue, snapshot.holdValue)

\* The factor of a square ratio equals the factor of its inverse.
FactorIsSymmetric ==
    \A k \in SquareRatios :
        ImpermanentLossFactor(Div(One, k)) = ImpermanentLossFactor(k)

\* The model that differs from the one under render only in its latest price
\* of token A, chosen so that its ratio change is the inverse:
\* latestRatio' = initialRatio^2 / latestRatio.
Mirror ==
    [simulation EXCEPT
        !.latestPriceA = Mul(Div(Mul(InitialRatio, InitialRatio), LatestRatio),
                             simulation.latestPriceB)]

\* C19: the factor of a ratio change k > 0 equals the factor of 1/k, and two
\* models that differ only in having ratio change k versus 1/k have the same
\* impermanentLossPct (k ranging over the square ratios, whose root is exact).
C19_LossIsSymmetric ==
    /\ FactorIsSymmetric
    /\ (Computed /\ Gt(InitialRatio, Zero) /\ Gt(LatestRatio, Zero)
                 /\ RatioChange \in SquareRatios) =>
          calculations(Mirror).impermanentLossPct = snapshot.impermanentLossPct

\* C20: the snapshot's isInRange is true exactly when lowerPriceBound <=
\* latestRatio <= upperPriceBound, with latestRatio = latestPriceA /
\* latestPriceB if latestPriceB > 0 and 0 otherwise; priceRange.isInRange
\* reports the same value; and it is false whenever upperPriceBound <
\* lowerPriceBound.
C20_InRangeIsBetweenBounds ==
    Computed =>
        /\ snapshot.isInRange
              <=> (/\ Le(simulation.lowerPriceBound, LatestRatio)
                   /\ Le(LatestRatio, simulation.upperPriceBound))
        /\ snapshot.priceRange.isInRange = snapshot.isInRange
        /\ snapshot.priceRange.current = LatestRatio
        /\ Lt(simulation.upperPriceBound, simulation.lowerPriceBound)
              => ~snapshot.isInRange

\* C20's case: the latest ratio sits exactly on a bound and is in range.
C20_Witness ==
    /\ Computed
    /\ Gt(simulation.latestPriceB, Zero)
    /\ LatestRatio = simulation.upperPriceBound
    /\ snapshot.isInRange
    /\ snapshot.priceRange.isInRange

(***************************************************************************)
(* Properties of the local randomizer (SpecOracle)                         *)
(***************************************************************************)
\* A price rounded as the randomizer rounds it.
Rounded(price, digits) ==
    parseFloat(toFixed(price, digits))

\* Whether `result` is the rounding to `digits` decimals of price * (1 + w)
\* for some w with -spread <= w <= spread: rounding is monotone, so it is
\* so exactly when result lies between the roundings of the two ends.
WithinSpread(result, price, spread, digits) ==
    LET e1 == Rounded(Mul(price, Sub(One, spread)), digits)
        e2 == Rounded(Mul(price, Add(One, spread)), digits)
    IN  /\ Le(IF Le(e1, e2) THEN e1 ELSE e2, result)
        /\ Le(result, IF Le(e1, e2) THEN e2 ELSE e1)
        /\ Rounded(result, digits) = result

\* C21: the prices the local randomizer returns are latestPriceA * (1 + u)
\* rounded to 2 decimals with -0.05 <= u <= 0.05, and latestPriceB * (1 + v)
\* rounded to 4 decimals with -0.01 <= v <= 0.01, whatever the random draws.
C21_FallbackWithinSpread ==
    \A j \in DOMAIN cards :
        cards[j].fetch.stage = "returned" =>
            LET call == cards[j].fetch
            IN  /\ WithinSpread(call.prices.priceA, call.simulation.latestPriceA,
                                Rat(5, 100), 2)
                /\ WithinSpread(call.prices.priceB, call.simulation.latestPriceB,
                                Rat(1, 100), 4)

\* C21's case: the randomizer has moved both prices of the seed.
C21_Witness ==
    \E j \in DOMAIN cards :
        /\ cards[j].fetch.stage = "returned"
        /\ cards[j].fetch.simulation.latestPriceA = Num(3000)
        /\ Lt(cards[j].fetch.prices.priceA, Num(3000))
        /\ Gt(cards[j].fetch.prices.priceB, cards[j].fetch.simulation.latestPriceB)

(***************************************************************************)
(* Properties of the snapshot and the projection, continued (SpecRender)   *)
(***************************************************************************)
\* Ranges with upperPriceBound > lowerPriceBound: below, around and above
\* the ratios of the models.
ProperRanges ==
    {[lowerPriceBound |-> One,          upperPriceBound |-> Num(2)],
     [lowerPriceBound |-> Num(700),     upperPriceBound |-> Num(2800)],
     [lowerPriceBound |-> Num(2400),    upperPriceBound |-> Num(3600)],
     [lowerPriceBound |-> Num(100000),  upperPriceBound |-> Num(200000)]}

\* The outputs C22 speaks of.
ValueOutputs(calc) ==
    <<calc.finalLpValue, calc.impermanentLoss, calc.lpNetReturn,
      calc.totalNetReturn, calc.finalTotalValue>>

\* C22: for a model with upperPriceBound > lowerPriceBound, the snapshot of
\* every model that differs from it only in its bounds (again with upper >
\* lower) has the same finalLpValue, impermanentLoss, lpNetReturn,
\* totalNetReturn and finalTotalValue, wherever latestRatio lies against
\* either range.
C22_ValuesIgnoreTheRange ==
    (Computed /\ Gt(simulation.upperPriceBound, simulation.lowerPriceBound)) =>
        \A r \in ProperRanges :
            ValueOutputs(calculations(Merge(simulation, r))) = ValueOutputs(snapshot)

\* C22's case: the ratio has left the range and the loss is applied all the
\* same.
C22_Witness ==
    /\ Computed
    /\ Gt(simulation.upperPriceBound, simulation.lowerPriceBound)
    /\ Gt(LatestRatio, Zero)
    /\ Lt(LatestRatio, simulation.lowerPriceBound)
    /\ ~snapshot.isInRange
    /\ Lt(snapshot.finalLpValue, snapshot.holdValue)
    /\ \E r \in ProperRanges : calculations(Merge(simulation, r)).isInRange

\* C23: for every model with a non-empty projection and upperPriceBound >
\* lowerPriceBound, the totalValue of the last point of the projection equals
\* the snapshot's finalTotalValue.
C23_EndpointTotalMatchesSnapshot ==
    (pc = "done" /\ chart # <<>>
        /\ Gt(simulation.upperPriceBound, simulation.lowerPriceBound)) =>
        chart[Len(chart)].totalValue = snapshot.finalTotalValue

(***************************************************************************)
(* Properties of a card, continued (SpecCard)                              *)
(***************************************************************************)
\* The keys of the displayed texts.
TextKeys ==
    DOMAIN getValuesFromSim(NewSimulation(<<"0">>))

\* Card k shows the same position before and after the step.
SameCard(k) ==
    /\ k \in DOMAIN simulations'
    /\ k \in DOMAIN cards'
    /\ simulations'[k].id = simulations[k].id

\* C24: in a step that changes the latestPriceA or latestPriceB of a card's
\* model, the displayed latestPriceA and latestPriceB become the model's
\* values, and the displayed text of every other field is unchanged.
C24_SyncTouchesOnlyPriceTexts ==
    [][\A k \in DOMAIN cards :
          (SameCard(k) /\ PricesChanged(simulations[k], simulations'[k])) =>
              /\ parseFloat(cards'[k].localValues.latestPriceA) = simulations'[k].latestPriceA
              /\ parseFloat(cards'[k].localValues.latestPriceB) = simulations'[k].latestPriceB
              /\ \A key \in TextKeys \ {"latestPriceA", "latestPriceB"} :
                    cards'[k].localValues[key] = cards[k].localValues[key]]_vars

\* The model field an empty text of `key` sets to 0.
ClearedField(key) ==
    CASE key \in {"amountA", "valueA"} -> "amountA"
      [] key \in {"amountB", "valueB"} -> "amountB"
      [] OTHER -> key

BoundKeys ==
    {"pctLower", "pctUpper", "lowerPriceBound", "upperPriceBound"}

\* C25: an edit of a numeric field whose text is neither empty nor a number
\* leaves the model unchanged and changes only the displayed text of the
\* edited field; an empty text sets amountA, amountB or the generic numeric
\* field to 0, and leaves the model unchanged for the four bound fields.
C25_UnparsableTextIsOnlyDisplayed ==
    [][\A key \in NumericKeys : \A value \in CardTexts(key) :
          HandleInputChange(1, key, value) =>
              /\ (value # <<>> /\ IsNaN(parseFloat(value))) =>
                    /\ simulations' = simulations
                    /\ cards'[1].localValues = [cards[1].localValues EXCEPT ![key] = value]
              /\ (value = <<>> /\ key \in BoundKeys) => simulations' = simulations
              /\ (value = <<>> /\ key \notin BoundKeys) =>
                    simulations'[1][ClearedField(key)] = Zero]_vars

\* C25's case: the text "abc" is displayed in the apr field and in the
\* amountA field of a position whose apr and amountA are still the seed's.
C25_Witness ==
    /\ Len(cards) = 1
    /\ cards[1].localValues.apr = <<"a", "b", "c">>
    /\ cards[1].localValues.amountA = <<"a", "b", "c">>
    /\ simulations[1].apr = NewSimulation(<<"0">>).apr
    /\ simulations[1].amountA = NewSimulation(<<"0">>).amountA

(***************************************************************************)
(* Properties of the collection, continued (Spec)                          *)
(***************************************************************************)
\* Patches handed to updateSimulation: of an edit, of an oracle result and
\* of the hedge toggle.
Patches ==
    {("apr" :> Num(7)),
     [latestPriceA |-> Num(2900), latestPriceB |-> One],
     [isHedgeEnabled |-> TRUE, shortAmount |-> Num(500)]}

\* An id no position has.
UnknownId ==
    <<"n", "o", "n", "e">>

\* C26: updateSimulation(id, patch) changes only the fields named in patch
\* of the positions whose id is id: the length and the order of the
\* collection, every other position and every other field are unchanged,
\* and a call with an id not in the collection changes nothing.
C26_UpdateTouchesOnlyThePatch ==
    \A patch \in Patches : \A id \in Ids(simulations) \cup {UnknownId} :
        LET after == updateSimulation(simulations, id, patch)
        IN  /\ Len(after) = Len(simulations)
            /\ \A k \in DOMAIN simulations :
                  /\ after[k].id = simulations[k].id
                  /\ simulations[k].id # id => after[k] = simulations[k]
                  /\ simulations[k].id = id =>
                        /\ DOMAIN after[k] = DOMAIN simulations[k]
                        /\ \A f \in DOMAIN after[k] :
                              after[k][f] = IF f \in DOMAIN patch THEN patch[f]
                                            ELSE simulations[k][f]
            /\ id \notin Ids(simulations) => after = simulations

\* C26's case: two positions with different ids and different models, one of
\* which the patch changes.
C26_Witness ==
    /\ Len(simulations) = 2
    /\ simulations[1].id # simulations[2].id
    /\ simulations[1].apr # simulations[2].apr
    /\ \E patch \in Patches :
          LET after == updateSimulation(simulations, simulations[2].id, patch)
          IN  after[2] # simulations[2] /\ after[1] = simulations[1]

\* C27: the result of an oracle call whose position was removed while the
\* call was in flight re-creates no position and changes none: the step that
\* applies it leaves the collection as it was.
C27_LateResultChangesNothing ==
    [][\A k \in DOMAIN orphans :
          (/\ Len(orphans') = Len(orphans)
           /\ orphans[k].stage = "returned"
           /\ orphans'[k].stage = "done")
              => simulations' = simulations]_vars

(***************************************************************************)
(* Properties of a card's oracle call (SpecCard)                           *)
(***************************************************************************)
\* The steps card j's oracle call still has to take: the call settles, then
\* fetchPrices resumes.
CallSteps(j) ==
    CASE cards[j].fetch.stage = "calling"  -> 2
      [] cards[j].fetch.stage = "returned" -> 1
      [] OTHER -> 0

\* C28: isLoadingPrice is true exactly while the card's oracle call is
\* outstanding.  A call starts only when none is outstanding, so there is at
\* most one; while it is outstanding its next step can be taken, every step
\* of the call brings it one step closer to its end, whatever the oracle
\* answered, and at its end isLoadingPrice is false.
C28_LoadingExactlyWhileOutstanding ==
    /\ [](\A j \in DOMAIN cards :
             /\ cards[j].isLoadingPrice <=> CallSteps(j) > 0
             /\ CallSteps(j) > 0 => ~crashed)
    /\ [][\A j \in DOMAIN cards :
             SameCard(j) =>
                /\ CallSteps(j)' > CallSteps(j) =>
                      /\ CallSteps(j) = 0
                      /\ ~cards[j].isLoadingPrice
                      /\ cards'[j].isLoadingPrice
                /\ (CallSteps(j) > 0 /\ cards'[j].fetch # cards[j].fetch) =>
                      CallSteps(j)' = CallSteps(j) - 1]_vars

\* C28's case: a call through the client has run to its end and the card
\* is no longer loading; the card went on living.
C28_Witness ==
    \E j \in DOMAIN cards :
        /\ ai = "client"
        /\ cards[j].fetch.stage = "done"
        /\ ~cards[j].isLoadingPrice
        /\ ~crashed

(***************************************************************************)
(* Properties of the hedge handlers (SpecCard)                             *)
(***************************************************************************)
\* The initial value of leg `token` of model sim, an unset amount counting
\* as 0.
LegValue(sim, token) ==
    LET amount == IF token = "A" THEN sim.amountA ELSE sim.amountB
        price  == IF token = "A" THEN sim.initialPriceA ELSE sim.initialPriceB
    IN  IF amount = Undefined THEN Zero ELSE Mul(amount, price)

\* Models with an amount unset, as the type of a position allows.
UnsetAmountModels ==
    {Merge(NewSimulation(<<"0">>), [amountA |-> a, amountB |-> b, shortToken |-> t]) :
        a \in {Undefined, Rat(1, 2)}, b \in {Undefined, Num(1500)}, t \in {"A", "B"}}

\* Both handlers on those models.
UnsetAmountCountsAsZero ==
    \A sim \in UnsetAmountModels : \A token \in {"A", "B"} :
        /\ handleHedgeToggle(sim, getValuesFromSim(sim), TRUE).simUpdate.shortAmount
              = LegValue(sim, sim.shortToken)
        /\ handleShortTokenChange(sim, getValuesFromSim(sim), token).simUpdate.shortAmount
              = LegValue(sim, token)

\* C29: enabling the hedge sets shortAmount to the initial value of the leg
\* selected as short token, selecting a short token sets it to the initial
\* value of that token's leg (an unset amount counting as 0), and disabling
\* the hedge changes isHedgeEnabled and nothing else of the model.
C29_HedgeHandlersSetShortAmount ==
    /\ [](UnsetAmountCountsAsZero)
    /\ [][/\ (HandleHedgeToggle(1) /\ ~simulations[1].isHedgeEnabled) =>
                /\ simulations'[1].isHedgeEnabled
                /\ simulations'[1].shortAmount
                      = LegValue(simulations[1], simulations[1].shortToken)
          /\ (HandleHedgeToggle(1) /\ simulations[1].isHedgeEnabled) =>
                simulations' = <<[simulations[1] EXCEPT !.isHedgeEnabled = FALSE]>>
          /\ \A token \in {"A", "B"} :
                HandleShortTokenChange(1, token) =>
                   /\ simulations'[1].shortToken = token
                   /\ simulations'[1].shortAmount = LegValue(simulations[1], token)]_vars

\* C29's case: the hedge was enabled on a position whose amountA had been
\* edited to 2.5, and shortAmount is the value of leg A at the initial price.
C29_Witness ==
    /\ Len(simulations) = 1
    /\ simulations[1].isHedgeEnabled
    /\ simulations[1].shortToken = "A"
    /\ simulations[1].amountA = Rat(5, 2)
    /\ simulations[1].shortAmount = Num(7500)

(***************************************************************************)
(* Properties of the local randomizer, continued (SpecOracle)              *)
(***************************************************************************)
\* C30: the latest prices of a position are > 0 at the start and every price
\* typed is > 0; after any number of updates by the local randomizer
\* latestPriceA and latestPriceB are still > 0.
C30_FallbackKeepsPricesPositive ==
    \A j \in DOMAIN simulations :
        /\ Gt(simulations[j].latestPriceA, Zero)
        /\ Gt(simulations[j].latestPriceB, Zero)

====
